---------------------------- MODULE Spec2Model ----------------------------
(***************************************************************************)
(* A model of the Schwab market-data client (schwab_market_data_client.py) *)
(* and of the timeframe aggregator (market_data_aggregator.py).            *)
(*                                                                         *)
(* Units.  Epoch timestamps are carried in whole seconds: the provider's   *)
(* 'datetime' field is epoch milliseconds, and a model timestamp t stands  *)
(* for the millisecond value 1000 * t (TLC's integers are 32 bits wide and *)
(* cannot hold epoch milliseconds).  Times of day are seconds after local  *)
(* midnight.  Calendar days in the fetch loop are day numbers.             *)
(***************************************************************************)
EXTENDS Integers, Sequences, FiniteSets, TLC

VARIABLES
    \* the position of the operation under way
    pc,
    \* get_price_history / _fetch_all_periods / _fetch_period
    symbol, time_interval, token_ok, start_dt, end_dt, current_start_dt,
    all_candles, requests, failed_at, result,
    \* PeriodOptimizer.get_optimal_period
    days_remaining, period,
    \* MarketDataProcessor._process_single_candle
    candle, processed,
    \* MarketDataProcessor.process_candles
    candles, df,
    \* DataQualityValidator.validate_dataframe
    vdf, passed, evaluated,
    \* aggregate_market_data
    agg_in, agg_out

fetchVars   == <<symbol, time_interval, token_ok, start_dt, end_dt,
                 current_start_dt, all_candles, requests, failed_at, result>>
periodVars  == <<days_remaining, period>>
sessionVars == <<candle, processed>>
processVars == <<candles, df>>
validVars   == <<vdf, passed, evaluated>>
aggVars     == <<agg_in, agg_out>>
vars == <<pc, fetchVars, periodVars, sessionVars, processVars, validVars, aggVars>>

\* Python's Optional: None is the empty sequence and a value x is <<x>>.
None == <<>>
Some(x) == <<x>>

\* The state of the components a specification does not exercise.
IdleFetch ==
    /\ symbol = "" /\ time_interval = 0 /\ token_ok = FALSE
    /\ start_dt = None /\ end_dt = None /\ current_start_dt = None
    /\ all_candles = <<>> /\ requests = <<>> /\ failed_at = 0 /\ result = None
IdlePeriod  == days_remaining = 0 /\ period = 0
IdleSession == candle = None /\ processed = None
IdleProcess == candles = <<>> /\ df = <<>>
IdleValid   == vdf = <<>> /\ passed = FALSE /\ evaluated = <<>>
IdleAgg     == agg_in = <<>> /\ agg_out = <<>>

----------------------------------------------------------------------------
(***************************************************************************)
(* The proleptic Gregorian calendar of Python's datetime, and the          *)
(* America/New_York zone of pytz (the rules in force since 2007).          *)
(***************************************************************************)

SecondsPerDay == 24 * 3600

\* calendar.isleap
isleap(year) == (year % 4 = 0) /\ ((year % 100 # 0) \/ (year % 400 = 0))

\* calendar.monthrange(year, month)[1]: the number of days of the month.
monthrange(year, month) ==
    IF month = 2 THEN (IF isleap(year) THEN 29 ELSE 28)
    ELSE IF month \in {4, 6, 9, 11} THEN 30 ELSE 31

\* Days from 1970-01-01 to the day `day` of the month that is mp months after
\* March of year y (January and February count with the year before).
DaysFromMarchYear(y, mp, day) ==
    y * 365 + y \div 4 - y \div 100 + y \div 400
      + (153 * mp + 2) \div 5 + day - 1 - 719468

\* Days from 1970-01-01 to the civil date year-month-day.
DaysFromCivil(year, month, day) ==
    DaysFromMarchYear(IF month <= 2 THEN year - 1 ELSE year,
                      IF month > 2 THEN month - 3 ELSE month + 9, day)

\* The civil date of day doy (from 0, March 1) of the March-based year y, in
\* the month mp months after March.
CivilFromMonth(y, doy, mp) ==
    [year  |-> IF mp < 10 THEN y ELSE y + 1,
     month |-> IF mp < 10 THEN mp + 3 ELSE mp - 9,
     day   |-> doy - (153 * mp + 2) \div 5 + 1]

CivilFromDayOfYear(y, doy) == CivilFromMonth(y, doy, (5 * doy + 2) \div 153)

CivilFromYearOfEra(era, doe, yoe) ==
    CivilFromDayOfYear(yoe + era * 400,
                       doe - (365 * yoe + yoe \div 4 - yoe \div 100))

CivilFromDayOfEra(era, doe) ==
    CivilFromYearOfEra(era, doe,
        (doe - doe \div 1460 + doe \div 36524 - doe \div 146096) \div 365)

\* The civil date of day number z (days since 1970-01-01).
CivilFromDays(z) ==
    CivilFromDayOfEra((z + 719468) \div 146097, (z + 719468) % 146097)

\* datetime(year, month, day).weekday(): Monday is 0, Friday is 4, Sunday is 6.
\* 1970-01-01 was a Thursday.
weekday(year, month, day) == (DaysFromCivil(year, month, day) + 3) % 7

\* The n-th Sunday of a month (n >= 1), as a day of the month.
NthSunday(year, month, n) ==
    CHOOSE d \in (7 * n - 6)..(7 * n) : weekday(year, month, d) = 6

\* Whether daylight-saving time is in force in New York at the UTC instant ts
\* of year y: from 02:00 EST on the second Sunday of March (07:00 UTC) to
\* 02:00 EDT on the first Sunday of November (06:00 UTC).
IsDstInYear(ts, y) ==
    /\ DaysFromCivil(y, 3, NthSunday(y, 3, 2)) * SecondsPerDay + 7 * 3600 <= ts
    /\ ts < DaysFromCivil(y, 11, NthSunday(y, 11, 1)) * SecondsPerDay + 6 * 3600

IsDst(ts) == IsDstInYear(ts, CivilFromDays(ts \div SecondsPerDay).year)

\* The fields of the New York datetime whose wall clock reads `local` seconds
\* since 1970-01-01 00:00.
WallClock(date, local, zone) ==
    [year |-> date.year, month |-> date.month, day |-> date.day,
     time |-> local % SecondsPerDay, zone |-> zone]

EasternAt(local, zone) ==
    WallClock(CivilFromDays(local \div SecondsPerDay), local, zone)

\* datetime.fromtimestamp(ts, tz=UTC).astimezone(America/New_York): the local
\* date, the local time of day (seconds) and the zone abbreviation.
ToEastern(ts) ==
    IF IsDst(ts) THEN EasternAt(ts - 4 * 3600, "EDT")
                 ELSE EasternAt(ts - 5 * 3600, "EST")

----------------------------------------------------------------------------
(***************************************************************************)
(* MarketConfig and MarketDataProcessor._process_single_candle             *)
(***************************************************************************)

\* datetime.strptime(..., '%H:%M:%S').time() of the MarketConfig strings.
HMS(h, m, s) == h * 3600 + m * 60 + s
market_open  == HMS(9, 30, 0)
market_close == HMS(16, 0, 0)
early_close  == HMS(13, 0, 0)

\* A variant of _is_fourth_friday that takes the last Friday of the month.
is_last_friday(date) ==
    LET n       == monthrange(date.year, date.month)
        fridays == SelectSeq([i \in 1..n |-> i],
                             LAMBDA d : weekday(date.year, date.month, d) = 4)
    IN  Len(fridays) >= 4 /\ date.day = fridays[Len(fridays)]

\* _is_fourth_friday: scan every day of the month, collect the Fridays in
\* order, and compare the date's day with the fourth of them.
is_fourth_friday(date) ==
    LET n       == monthrange(date.year, date.month)
        fridays == SelectSeq([i \in 1..n |-> i],
                             LAMBDA d : weekday(date.year, date.month, d) = 4)
    IN  Len(fridays) >= 4 /\ date.day = fridays[4]

\* candle.get(key, 0)
Get(c, key) == IF key \in DOMAIN c THEN c[key] ELSE 0

\* The market-hours test of _process_single_candle on the local datetime.
OutsideMarketHours(dt_et) ==
    dt_et.time < market_open \/ dt_et.time > market_close

\* The three early-close tests of _process_single_candle.
AfterEarlyClose(dt_et) ==
    \/ dt_et.month = 7 /\ dt_et.day = 3 /\ dt_et.time > early_close
    \/ dt_et.month = 11 /\ is_fourth_friday(dt_et) /\ dt_et.time > early_close
    \/ dt_et.month = 12 /\ dt_et.day = 24 /\ dt_et.time > early_close

\* _process_single_candle from the market-hours test on, for the candle c and
\* its New York datetime: None, or the row built from the candle.
FilteredRow(c, dt_et) ==
    IF OutsideMarketHours(dt_et) THEN None
    ELSE IF AfterEarlyClose(dt_et) THEN None
    ELSE Some([timestamp |-> Get(c, "datetime"),
               datetime  |-> dt_et,
               open      |-> Get(c, "open"),
               high      |-> Get(c, "high"),
               low       |-> Get(c, "low"),
               close     |-> Get(c, "close"),
               volume    |-> Get(c, "volume")])

\* _process_single_candle
process_single_candle(c) == FilteredRow(c, ToEastern(Get(c, "datetime")))

----------------------------------------------------------------------------
(***************************************************************************)
(* The session filter applied to one raw candle.                           *)
(***************************************************************************)

\* The years whose days the session specification draws candles from.
FirstYear == 2024
NumYears == 3

\* Local times of day around the three session bounds.
BoundaryTimes ==
    { HMS(9, 29, 59), market_open, HMS(12, 59, 59), early_close, HMS(13, 0, 1),
      HMS(14, 0, 0), HMS(15, 59, 59), market_close, HMS(16, 0, 1) }

\* UTC instants whose New York time is a boundary time (in one of the two
\* offsets) on some day of the years drawn from.
SessionTimestamps ==
    { DaysFromCivil(y, m, d) * SecondsPerDay + t + off * 3600 :
        y \in FirstYear..(FirstYear + NumYears - 1),
        m \in 1..12, d \in 1..31, t \in BoundaryTimes, off \in {4, 5} }

RawCandle(ts, v) ==
    [datetime |-> ts, open |-> v, high |-> v + 1, low |-> v, close |-> v + 1,
     volume |-> 10 * v]

\* Raw candles: one per timestamp, and one with no 'datetime' key.
SessionCandles ==
    { RawCandle(ts, 1) : ts \in SessionTimestamps } \cup { [open |-> 1] }

InitSession ==
    /\ pc = "candle"
    /\ candle \in SessionCandles
    /\ processed = None
    /\ IdleFetch /\ IdlePeriod /\ IdleProcess /\ IdleValid /\ IdleAgg

\* One call of _process_single_candle.
ProcessSingleCandle ==
    /\ pc = "candle"
    /\ processed' = process_single_candle(candle)
    /\ pc' = "candle_done"
    /\ UNCHANGED <<candle, fetchVars, periodVars, processVars, validVars, aggVars>>

SpecSession == InitSession /\ [][ProcessSingleCandle]_vars

\* The local datetime of the candle under test, and whether it was kept.
CandleLocal == ToEastern(Get(candle, "datetime"))
CandleKept == processed # None

\* The early-close dates as the calendar states them: July 3, December 24,
\* and the Friday of November whose day of the month is in 22..28.
IsEarlyCloseDate(dt) ==
    \/ dt.month = 7 /\ dt.day = 3
    \/ dt.month = 12 /\ dt.day = 24
    \/ dt.month = 11 /\ weekday(dt.year, dt.month, dt.day) = 4 /\ dt.day \in 22..28

\* C5: on a date with no early-close rule a candle is kept iff its local time
\* of day t satisfies 09:30:00 <= t < 16:00:00 (close bound exclusive).
C5_CloseExclusive ==
    (pc = "candle_done" /\ ~IsEarlyCloseDate(CandleLocal))
        => (CandleKept <=> (market_open <= CandleLocal.time
                            /\ CandleLocal.time < market_close))

\* C6: the 13:00:00 early close applies exactly on July 3, December 24 and the
\* fourth Friday of November; there a candle is kept iff 09:30:00 <= t <=
\* 13:00:00, and on every other date a time after 13:00:00 and before the
\* normal close is kept.
C6_EarlyClose ==
    pc = "candle_done" =>
        /\ IsEarlyCloseDate(CandleLocal)
              => (CandleKept <=> (market_open <= CandleLocal.time
                                  /\ CandleLocal.time <= early_close))
        /\ (~IsEarlyCloseDate(CandleLocal)
             /\ early_close < CandleLocal.time /\ CandleLocal.time < market_close)
              => CandleKept

\* C6 witness: a candle stamped 13:00:00 on the fourth Friday of November is kept.
C6_Witness ==
    /\ pc = "candle_done"
    /\ CandleLocal.month = 11 /\ IsEarlyCloseDate(CandleLocal)
    /\ CandleLocal.time = early_close
    /\ CandleKept

----------------------------------------------------------------------------
(***************************************************************************)
(* PeriodOptimizer                                                         *)
(***************************************************************************)

VALID_PERIODS == <<10, 5, 4, 3, 2, 1>>

\* The loop of get_optimal_period from position i of VALID_PERIODS on.
RECURSIVE FirstFitting(_, _)
FirstFitting(days, i) ==
    IF i > Len(VALID_PERIODS) THEN 0
    ELSE IF days >= VALID_PERIODS[i] THEN VALID_PERIODS[i]
    ELSE FirstFitting(days, i + 1)

\* A variant of get_optimal_period that compares strictly.
get_optimal_period_strict(days) ==
    LET fits == { i \in 1..Len(VALID_PERIODS) : days > VALID_PERIODS[i] }
    IN  IF fits = {} THEN 0
        ELSE VALID_PERIODS[CHOOSE i \in fits : \A j \in fits : i <= j]

\* get_optimal_period: the first period of VALID_PERIODS that fits, else 0.
get_optimal_period(days) == FirstFitting(days, 1)

\* The inputs of the period specification: -MaxDaysRemaining..MaxDaysRemaining.
MaxDaysRemaining == 60

InitPeriod ==
    /\ pc = "period"
    /\ days_remaining \in (-MaxDaysRemaining)..MaxDaysRemaining
    /\ period = 0
    /\ IdleFetch /\ IdleSession /\ IdleProcess /\ IdleValid /\ IdleAgg

\* One call of get_optimal_period.
GetOptimalPeriod ==
    /\ pc = "period"
    /\ period' = get_optimal_period(days_remaining)
    /\ pc' = "period_done"
    /\ UNCHANGED <<days_remaining, fetchVars, sessionVars, processVars,
                   validVars, aggVars>>

SpecPeriod == InitPeriod /\ [][GetOptimalPeriod]_vars

\* The candidate window sizes, as a set.
Candidates == {10, 5, 4, 3, 2, 1}

\* C4: for days_remaining >= 1 the result is the largest candidate of
\* {10,5,4,3,2,1} not exceeding days_remaining; for days_remaining <= 0 it is 0.
C4_LargestCandidate ==
    pc = "period_done" =>
        IF days_remaining >= 1
        THEN /\ period \in Candidates
             /\ period <= days_remaining
             /\ \A c \in Candidates : c <= days_remaining => c <= period
        ELSE period = 0

\* C4 witness: 7 days remaining give a window of 5.
C4_Witness == pc = "period_done" /\ days_remaining = 7 /\ period = 5

----------------------------------------------------------------------------
(***************************************************************************)
(* MarketDataProcessor.process_candles                                     *)
(***************************************************************************)

\* The loop over the raw candles: the rows of the candles that were kept, in
\* input order.
RECURSIVE KeptRows(_)
KeptRows(cs) ==
    IF cs = <<>> THEN <<>>
    ELSE process_single_candle(Head(cs)) \o KeptRows(Tail(cs))

\* df.sort_values('timestamp'): the rows in ascending timestamp order.  The
\* default sort is not stable, so rows with equal timestamps may come out in
\* any order: the set of all the orders it can return.
sort_values(rows) ==
    LET n     == Len(rows)
        perms == { f \in [1..n -> 1..n] : \A i, j \in 1..n : i # j => f[i] # f[j] }
    IN  { [i \in 1..n |-> rows[f[i]]] : f \in
            { g \in perms : \A i \in 1..(n - 1) :
                  rows[g[i]].timestamp <= rows[g[i + 1]].timestamp } }

\* A variant of drop_duplicates that drops nothing.
keep_duplicates(rows) == rows

\* df.drop_duplicates(subset=['timestamp']): keep the first row of each
\* timestamp.
drop_duplicates(rows) ==
    LET keep  == { i \in 1..Len(rows) :
                     \A j \in 1..(i - 1) : rows[j].timestamp # rows[i].timestamp }
        \* the position in rows of the k-th kept row
        at(k) == CHOOSE i \in keep : Cardinality({ j \in keep : j <= i }) = k
    IN  [k \in 1..Cardinality(keep) |-> rows[at(k)]]

\* process_candles: the data frames it can return (the empty frame when no
\* candle is kept).
process_candles(cs) ==
    LET df_data == KeptRows(cs)
    IN  IF df_data = <<>> THEN { <<>> }
        ELSE { drop_duplicates(sorted) : sorted \in sort_values(df_data) }

\* The longest list of raw candles the processing specification draws.
MaxCandles == 3

\* Four instants of Monday 2025-06-02 in New York (EDT): 09:29, 09:30, 09:31
\* and 16:01.
ProcessTimestamps ==
    { DaysFromCivil(2025, 6, 2) * SecondsPerDay + 4 * 3600 + t :
        t \in { HMS(9, 29, 0), HMS(9, 30, 0), HMS(9, 31, 0), HMS(16, 1, 0) } }

ProcessCandleInputs == { RawCandle(ts, v) : ts \in ProcessTimestamps, v \in {1, 2} }

SeqsUpTo(S, n) == UNION { [1..k -> S] : k \in 0..n }

InitProcess ==
    /\ pc = "candles"
    /\ \E n \in 0..MaxCandles : candles \in [1..n -> ProcessCandleInputs]
    /\ df = <<>>
    /\ IdleFetch /\ IdlePeriod /\ IdleSession /\ IdleValid /\ IdleAgg

\* One call of process_candles.
ProcessCandles ==
    /\ pc = "candles"
    /\ df' \in process_candles(candles)
    /\ pc' = "candles_done"
    /\ UNCHANGED <<candles, fetchVars, periodVars, sessionVars, validVars, aggVars>>

SpecProcess == InitProcess /\ [][ProcessCandles]_vars

\* Whether the session filter keeps a raw candle.
PassesFilter(c) == process_single_candle(c) # None

\* C7: the returned rows have strictly increasing (hence distinct) timestamps,
\* every row is the row of an input candle that passes the session filter, and
\* the timestamp of every input candle that passes occurs exactly once.
C7_SortedUnique ==
    pc = "candles_done" =>
        /\ \A i \in 1..(Len(df) - 1) : df[i].timestamp < df[i + 1].timestamp
        /\ \A i \in 1..Len(df) :
              \E k \in 1..Len(candles) :
                  PassesFilter(candles[k]) /\ process_single_candle(candles[k]) = Some(df[i])
        /\ \A k \in 1..Len(candles) :
              PassesFilter(candles[k]) =>
                  Cardinality({ i \in 1..Len(df) :
                                  df[i].timestamp = Get(candles[k], "datetime") }) = 1

\* C7 witness: three candles given out of order, two of them with the same
\* timestamp, come out as two rows.
C7_Witness ==
    /\ pc = "candles_done"
    /\ Len(candles) = 3 /\ Len(df) = 2
    /\ Get(candles[1], "datetime") > Get(candles[2], "datetime")
    /\ Get(candles[1], "datetime") = Get(candles[3], "datetime")

----------------------------------------------------------------------------
(***************************************************************************)
(* SchwabMarketDataClient: get_price_history, _fetch_all_periods and       *)
(* _fetch_period.                                                          *)
(*                                                                         *)
(* A timezone-aware datetime at local midnight is [day, off]: the calendar *)
(* day number and the hours its tzinfo is behind UTC.  pytz's localize     *)
(* attaches the fixed-offset tzinfo (EST or EDT) in force at that local    *)
(* time; datetime + timedelta keeps the tzinfo it started with; comparison *)
(* and subtraction of aware datetimes go by their UTC instants.            *)
(***************************************************************************)

\* timezone.localize(datetime.strptime(date, "%Y-%m-%d"))
localize(day) ==
    [day |-> day, off |-> IF IsDst(day * SecondsPerDay + 5 * 3600) THEN 4 ELSE 5]

\* The UTC instant of an aware datetime.
Utc(dt) == dt.day * SecondsPerDay + dt.off * 3600

\* (a - b).days: timedelta days are floored.
DaysBetween(a, b) == (Utc(a) - Utc(b)) \div SecondsPerDay

\* dt + timedelta(days=n)
PlusDays(dt, n) == [dt EXCEPT !.day = @ + n]

\* _validate_inputs, with the credential provider's answer as token.
validate_inputs(sym, interval, token) ==
    /\ interval \in {1, 5, 10, 15, 30}
    /\ sym # ""
    /\ token

\* _parse_dates for given start and end dates.
parse_dates(start_date, end_date) == <<localize(start_date), localize(end_date)>>

\* _fetch_period on the HTTP capability's answer: None on a transport error or
\* a status other than 200, else the candles of the body ([] when the body has
\* none).
fetch_period(response) ==
    IF response.kind = "transport_error" THEN None
    ELSE IF response.status = 200
         THEN Some(IF "candles" \in DOMAIN response.body
                   THEN response.body.candles ELSE <<>>)
         ELSE None

\* A variant of the failure exit that hands back the candles accumulated so far.
partial_on_failure(accumulated) == accumulated

\* What _fetch_all_periods returns when a period fails: `return []`.
return_on_failure(accumulated) == <<>>

\* The window of the loop body for the current start: its size and its end.
NextPeriod(cur, end) == get_optimal_period(DaysBetween(end, cur) + 1)
PeriodEnd(cur, end) ==
    LET period_end_dt == PlusDays(cur, NextPeriod(cur, end) - 1)
    IN  IF Utc(period_end_dt) > Utc(end) THEN end ELSE period_end_dt

\* The tail of get_price_history on what _fetch_all_periods returned: None
\* when the list is empty, else a frame process_candles can return.
price_history(fetched) ==
    IF fetched = <<>> THEN { None }
    ELSE { Some(frame) : frame \in process_candles(fetched) }

\* The dates the fetch specification starts from (month, day of FetchYear),
\* on both sides of the two daylight-saving transitions, and the longest range.
FetchYear == 2025
MaxRangeDays == 24
StartDates == { <<2, 1>>, <<3, 1>>, <<3, 8>>, <<6, 1>>, <<10, 20>> }

\* Two instants of Monday 2025-06-02 in New York: 10:00 (in session) and
\* 17:00 (after the close).
FetchTimestamps ==
    { DaysFromCivil(2025, 6, 2) * SecondsPerDay + 4 * 3600 + t :
        t \in { HMS(10, 0, 0), HMS(17, 0, 0) } }

\* The answers of the HTTP capability to request number k.
Responses(k) ==
    { [kind |-> "response", status |-> 200, body |-> [candles |-> <<RawCandle(ts, k)>>]] :
        ts \in FetchTimestamps }
    \cup { [kind |-> "response", status |-> 200, body |-> [candles |-> <<>>]],
           [kind |-> "response", status |-> 200, body |-> [empty |-> TRUE]],
           [kind |-> "response", status |-> 500, body |-> [error |-> TRUE]],
           [kind |-> "transport_error"] }

Init ==
    /\ pc = "get_price_history"
    /\ symbol \in {"SPY", ""}
    /\ time_interval \in {5, 7}
    /\ token_ok \in BOOLEAN
    /\ \E md \in StartDates, len \in 0..MaxRangeDays :
          LET first == DaysFromCivil(FetchYear, md[1], md[2])
          IN  /\ start_dt = localize(first)
              /\ end_dt = localize(first + len - 1)
    /\ current_start_dt = start_dt
    /\ all_candles = <<>> /\ requests = <<>> /\ failed_at = 0 /\ result = None
    /\ IdlePeriod /\ IdleSession /\ IdleProcess /\ IdleValid /\ IdleAgg

\* get_price_history up to the call of _fetch_all_periods, with invalid inputs.
RejectInputs ==
    /\ pc = "get_price_history"
    /\ ~validate_inputs(symbol, time_interval, token_ok)
    /\ result' = None
    /\ pc' = "returned"
    /\ UNCHANGED <<symbol, time_interval, token_ok, start_dt, end_dt,
                   current_start_dt, all_candles, requests, failed_at>>
    /\ UNCHANGED <<periodVars, sessionVars, processVars, validVars, aggVars>>

\* get_price_history up to the call of _fetch_all_periods, with valid inputs.
AcceptInputs ==
    /\ pc = "get_price_history"
    /\ validate_inputs(symbol, time_interval, token_ok)
    /\ pc' = "fetch_all_periods"
    /\ UNCHANGED <<symbol, time_interval, token_ok, start_dt, end_dt,
                   current_start_dt, all_candles, requests, failed_at, result>>
    /\ UNCHANGED <<periodVars, sessionVars, processVars, validVars, aggVars>>

\* One pass of the loop of _fetch_all_periods whose request succeeds.
FetchPeriodOk ==
    /\ pc = "fetch_all_periods"
    /\ Utc(current_start_dt) <= Utc(end_dt)
    /\ NextPeriod(current_start_dt, end_dt) # 0
    /\ \E response \in Responses(Len(requests) + 1) :
          /\ fetch_period(response) # None
          /\ all_candles' = all_candles \o fetch_period(response)[1]
    /\ requests' = Append(requests,
                          [start  |-> current_start_dt.day,
                           end    |-> PeriodEnd(current_start_dt, end_dt).day,
                           period |-> NextPeriod(current_start_dt, end_dt)])
    /\ current_start_dt' = PlusDays(PeriodEnd(current_start_dt, end_dt), 1)
    /\ UNCHANGED <<pc, symbol, time_interval, token_ok, start_dt, end_dt,
                   failed_at, result>>
    /\ UNCHANGED <<periodVars, sessionVars, processVars, validVars, aggVars>>

\* One pass of the loop whose request fails: _fetch_all_periods returns at
\* once and get_price_history returns on what it handed back.
FetchPeriodFails ==
    /\ pc = "fetch_all_periods"
    /\ Utc(current_start_dt) <= Utc(end_dt)
    /\ NextPeriod(current_start_dt, end_dt) # 0
    /\ \E response \in Responses(Len(requests) + 1) :
          fetch_period(response) = None
    /\ requests' = Append(requests,
                          [start  |-> current_start_dt.day,
                           end    |-> PeriodEnd(current_start_dt, end_dt).day,
                           period |-> NextPeriod(current_start_dt, end_dt)])
    /\ failed_at' = Len(requests) + 1
    /\ result' \in price_history(return_on_failure(all_candles))
    /\ pc' = "returned"
    /\ UNCHANGED <<symbol, time_interval, token_ok, start_dt, end_dt,
                   current_start_dt, all_candles>>
    /\ UNCHANGED <<periodVars, sessionVars, processVars, validVars, aggVars>>

\* The loop ends (its condition fails, or no period fits) and
\* get_price_history returns on the accumulated candles.
FetchComplete ==
    /\ pc = "fetch_all_periods"
    /\ IF Utc(current_start_dt) <= Utc(end_dt)
       THEN NextPeriod(current_start_dt, end_dt) = 0
       ELSE TRUE
    /\ result' \in price_history(all_candles)
    /\ pc' = "returned"
    /\ UNCHANGED <<symbol, time_interval, token_ok, start_dt, end_dt,
                   current_start_dt, all_candles, requests, failed_at>>
    /\ UNCHANGED <<periodVars, sessionVars, processVars, validVars, aggVars>>

Next == RejectInputs \/ AcceptInputs \/ FetchPeriodOk \/ FetchPeriodFails \/ FetchComplete

Spec == Init /\ [][Next]_vars

\* The fetch has returned, its inputs were valid and no request failed.
FetchSucceeded ==
    /\ pc = "returned"
    /\ validate_inputs(symbol, time_interval, token_ok)
    /\ failed_at = 0

\* C1: for a range with start <= end whose requests all succeed, the windows
\* requested are contiguous by date (the first starts at start, each next one
\* starts the day after the one before ends, the last ends at end), so that
\* they do not overlap and their union is the range; a 23-day range issues
\* exactly 3 requests of sizes 10, 10, 3.
C1_WindowsCoverRange ==
    (FetchSucceeded /\ start_dt.day <= end_dt.day) =>
        /\ Len(requests) >= 1
        /\ requests[1].start = start_dt.day
        /\ requests[Len(requests)].end = end_dt.day
        /\ \A i \in 1..Len(requests) : requests[i].start <= requests[i].end
        /\ \A i \in 1..(Len(requests) - 1) :
              requests[i + 1].start = requests[i].end + 1
        /\ (end_dt.day - start_dt.day + 1 = 23) =>
              [i \in 1..Len(requests) |-> requests[i].period] = <<10, 10, 3>>

\* C2: once a period request has failed (transport error or non-2xx status)
\* the fetch has returned failure with no bars, the failed request is the last
\* one issued, and no window was requested twice.
C2_FailureIsTerminal ==
    failed_at # 0 =>
        /\ pc = "returned"
        /\ result = None
        /\ Len(requests) = failed_at
        /\ \A i, j \in 1..Len(requests) : i # j => requests[i] # requests[j]

\* C2 witness: the second request failed after the first had returned a
\* candle, and the fetch returned None.
C2_Witness ==
    /\ failed_at = 2
    /\ all_candles # <<>>
    /\ result = None

\* C3: when the inputs are valid and every period request succeeds, the fetch
\* returns the processor's output over the accumulated records, also when
\* every period returned zero records (then an empty sequence, not a failure).
C3_EmptyIsNotFailure ==
    (FetchSucceeded /\ Len(requests) >= 1) =>
        /\ result # None
        /\ result[1] \in process_candles(all_candles)

----------------------------------------------------------------------------
(***************************************************************************)
(* DataQualityValidator.  A cell of the data frame is <<v>> for the value  *)
(* v and <<>> for a null (NaN): a comparison with a null is false, and     *)
(* duplicated() counts nulls as equal to one another.                      *)
(***************************************************************************)

Null == <<>>
Cell(v) == <<v>>

\* cell < k, on a column that may hold nulls
Less(cell, k) == cell # Null /\ cell[1] < k

\* df.duplicated(subset=[column], keep=False) marks some row.
HasDuplicated(frame, column) ==
    \E i, j \in 1..Len(frame) : i # j /\ frame[i][column] = frame[j][column]

\* Series.is_monotonic_increasing: no null, and no value below the one before.
is_monotonic_increasing(frame, column) ==
    /\ \A i \in 1..Len(frame) : frame[i][column] # Null
    /\ \A i \in 1..(Len(frame) - 1) : frame[i][column][1] <= frame[i + 1][column][1]

check_duplicate_timestamps(frame) == ~HasDuplicated(frame, "timestamp")
check_duplicate_datetime(frame) == ~HasDuplicated(frame, "datetime")
\* warns about nulls and returns True
check_null_values(frame) == TRUE
check_negative_prices(frame) ==
    ~\E i \in 1..Len(frame) :
        \/ Less(frame[i].open, 0) \/ Less(frame[i].high, 0)
        \/ Less(frame[i].low, 0) \/ Less(frame[i].close, 0)
\* warns about volumes <= 0 and returns True
check_volume_values(frame) == TRUE
check_timestamp_ordering(frame) == is_monotonic_increasing(frame, "timestamp")

\* The list `validations`, by name, and the outcome of each on a frame.
validations ==
    <<"duplicate_timestamps", "duplicate_datetime", "null_values",
      "negative_prices", "volume_values", "timestamp_ordering">>

Validation(name, frame) ==
    CASE name = "duplicate_timestamps" -> check_duplicate_timestamps(frame)
      [] name = "duplicate_datetime"   -> check_duplicate_datetime(frame)
      [] name = "null_values"          -> check_null_values(frame)
      [] name = "negative_prices"      -> check_negative_prices(frame)
      [] name = "volume_values"        -> check_volume_values(frame)
      [] name = "timestamp_ordering"   -> check_timestamp_ordering(frame)

\* The loop over `validations` from position i on, having evaluated `done`:
\* it returns False at the first validation that fails.
RECURSIVE RunValidations(_, _, _)
RunValidations(frame, i, done) ==
    IF i > Len(validations) THEN [passed |-> TRUE, evaluated |-> done]
    ELSE IF ~Validation(validations[i], frame)
         THEN [passed |-> FALSE, evaluated |-> Append(done, validations[i])]
         ELSE RunValidations(frame, i + 1, Append(done, validations[i]))

\* A variant of the loop that evaluates every validation and fails at the end.
validate_all(frame) ==
    [passed    |-> \A i \in 1..Len(validations) : Validation(validations[i], frame),
     evaluated |-> IF frame = <<>> THEN <<>> ELSE validations]

\* validate_dataframe: whether the frame passed, and the validations that
\* were evaluated, in order.
validate_dataframe(frame) ==
    IF frame = <<>> THEN [passed |-> FALSE, evaluated |-> <<>>]
    ELSE RunValidations(frame, 1, <<>>)

\* The longest frame the validation specification draws.
MaxRows == 2

\* The price and volume cells of a row: sound, one price negative, one price
\* null, or a volume of zero.
SoundCells ==
    [open |-> Cell(1), high |-> Cell(1), low |-> Cell(1), close |-> Cell(1),
     volume |-> Cell(5)]

PriceCells ==
    { SoundCells,
      [SoundCells EXCEPT !.open = Cell(-1)],
      [SoundCells EXCEPT !.high = Cell(-1)],
      [SoundCells EXCEPT !.low = Cell(-1)],
      [SoundCells EXCEPT !.close = Cell(-1)],
      [SoundCells EXCEPT !.open = Null],
      [SoundCells EXCEPT !.volume = Cell(0)] }

FrameRows ==
    { [timestamp |-> ts, datetime |-> dt, open |-> p.open, high |-> p.high,
       low |-> p.low, close |-> p.close, volume |-> p.volume] :
        ts \in {Cell(1), Cell(2), Null},
        dt \in {Cell("a"), Cell("b"), Null},
        p \in PriceCells }

InitValid ==
    /\ pc = "validate"
    /\ \E n \in 0..MaxRows : vdf \in [1..n -> FrameRows]
    /\ passed = FALSE /\ evaluated = <<>>
    /\ IdleFetch /\ IdlePeriod /\ IdleSession /\ IdleProcess /\ IdleAgg

\* One call of validate_dataframe.
ValidateDataframe ==
    /\ pc = "validate"
    /\ passed' = validate_dataframe(vdf).passed
    /\ evaluated' = validate_dataframe(vdf).evaluated
    /\ pc' = "validated"
    /\ UNCHANGED <<vdf, fetchVars, periodVars, sessionVars, processVars, aggVars>>

SpecValid == InitValid /\ [][ValidateDataframe]_vars

\* The four hard checks as stated over the values present in the frame.
\* The positions of the rows whose cell in a column is not null.
Present(frame, column) == { i \in 1..Len(frame) : frame[i][column] # Null }

ValueRepeats(frame, column) ==
    \E i, j \in Present(frame, column) :
        i # j /\ frame[i][column] = frame[j][column]

SomePriceNegative(frame) ==
    \E i \in 1..Len(frame) :
        \E column \in {"open", "high", "low", "close"} :
            i \in Present(frame, column) /\ frame[i][column][1] < 0

TimestampsDecrease(frame) ==
    \E i, j \in Present(frame, "timestamp") :
        i < j /\ frame[i].timestamp[1] > frame[j].timestamp[1]

\* C8: passed is true iff the frame is non-empty and none of the four hard
\* checks fires (a repeated timestamp, a repeated display time, a negative
\* price, timestamps not non-decreasing); nulls and volumes <= 0 do not count.
C8_PassedIffNoHardFailure ==
    pc = "validated" =>
        (passed <=> /\ vdf # <<>>
                    /\ ~ValueRepeats(vdf, "timestamp")
                    /\ ~ValueRepeats(vdf, "datetime")
                    /\ ~SomePriceNegative(vdf)
                    /\ ~TimestampsDecrease(vdf))

----------------------------------------------------------------------------
(***************************************************************************)
(* aggregate_market_data.  Its input is the file the client wrote: the     *)
(* rows of a frame process_candles returned, in ascending timestamp order. *)
(***************************************************************************)

\* pd.Timestamp('09:30').time() and pd.Timestamp('16:00').time()
agg_market_open  == HMS(9, 30, 0)
agg_market_close == HMS(16, 0, 0)

\* timeframe_mapping, as the length of a bucket in seconds.
timeframe_mapping(to_timeframe) ==
    CASE to_timeframe = "1m"  -> 60
      [] to_timeframe = "3m"  -> 3 * 60
      [] to_timeframe = "5m"  -> 5 * 60
      [] to_timeframe = "10m" -> 10 * 60
      [] to_timeframe = "15m" -> 15 * 60
      [] to_timeframe = "30m" -> 30 * 60
      [] to_timeframe = "1h"  -> 3600
      [] to_timeframe = "1d"  -> SecondsPerDay

\* pd.to_datetime(..., format='%Y-%m-%d %H:%M:%S EDT') accepts the row's
\* display time: the format matches only strings that end in " EDT".
MatchesFormat(row) == row.datetime.zone = "EDT"

\* The wall-clock seconds since 1970-01-01 00:00 of the parsed display time.
WallSeconds(row) ==
    DaysFromCivil(row.datetime.year, row.datetime.month, row.datetime.day)
        * SecondsPerDay + row.datetime.time

\* A variant of the market-hours mask that keeps the close itself.
in_market_hours_inclusive(row) ==
    row.datetime.time >= agg_market_open /\ row.datetime.time <= agg_market_close

\* The market-hours mask: time >= market_open and time < market_close.
in_market_hours(row) ==
    row.datetime.time >= agg_market_open /\ row.datetime.time < agg_market_close

\* The bucket of df.resample(rule) a row falls in: buckets are aligned to
\* midnight and numbered by their start.
BucketOf(row, size) == WallSeconds(row) \div size

RECURSIVE SumVolume(_)
SumVolume(rows) ==
    IF rows = <<>> THEN 0 ELSE Head(rows).volume + SumVolume(Tail(rows))

MaxHigh(rows) ==
    CHOOSE h \in { rows[i].high : i \in 1..Len(rows) } :
        \A i \in 1..Len(rows) : rows[i].high <= h
MinLow(rows) ==
    CHOOSE l \in { rows[i].low : i \in 1..Len(rows) } :
        \A i \in 1..Len(rows) : l <= rows[i].low

\* The agg({...}) of the rows of one bucket, in input order.
AggregateBucket(rows, bucket, size) ==
    [timestamp |-> rows[1].timestamp,
     datetime  |-> bucket * size,
     open      |-> rows[1].open,
     high      |-> MaxHigh(rows),
     low       |-> MinLow(rows),
     close     |-> rows[Len(rows)].close,
     volume    |-> SumVolume(rows)]

\* resample(rule).agg({...}) followed by dropna: one row per bucket that has
\* rows, in bucket order (the buckets without rows have NaN prices and are
\* dropped).
Resample(rows, size) ==
    LET buckets == { BucketOf(rows[i], size) : i \in 1..Len(rows) }
        nth(k)  == CHOOSE b \in buckets :
                       Cardinality({ c \in buckets : c <= b }) = k
        of(b)   == SelectSeq(rows, LAMBDA r : BucketOf(r, size) = b)
    IN  [k \in 1..Cardinality(buckets) |-> AggregateBucket(of(nth(k)), nth(k), size)]

\* aggregate_market_data on the rows of the input file: None when parsing the
\* display times raises, else the rows written to the output file.
aggregate_market_data(rows, to_timeframe) ==
    IF \E i \in 1..Len(rows) : ~MatchesFormat(rows[i]) THEN None
    ELSE Some(Resample(SelectSeq(rows, in_market_hours),
                       timeframe_mapping(to_timeframe)))

\* The most rows of an input file the aggregation specification draws.
MaxBars == 3

\* Minutes of Monday 2025-06-02 in New York (EDT), around the open and the
\* close, and one minute of Monday 2025-01-06 (EST).
AggTimestamps ==
    { DaysFromCivil(2025, 6, 2) * SecondsPerDay + 4 * 3600 + t :
        t \in { HMS(9, 30, 0), HMS(9, 31, 0), HMS(9, 32, 0), HMS(9, 33, 0),
                HMS(15, 59, 0), HMS(16, 0, 0) } }
    \cup { DaysFromCivil(2025, 1, 6) * SecondsPerDay + 5 * 3600 + HMS(10, 0, 0) }

\* Lists of at most MaxBars raw candles of distinct timestamps.
AggCandleLists ==
    { cs \in SeqsUpTo({ RawCandle(ts, v) : ts \in AggTimestamps, v \in {1, 2} }, MaxBars) :
        \A i, j \in 1..Len(cs) : i # j => cs[i].datetime # cs[j].datetime }

InitAgg ==
    /\ pc = "aggregate"
    /\ \E cs \in AggCandleLists : agg_in \in process_candles(cs)
    /\ agg_out = None
    /\ IdleFetch /\ IdlePeriod /\ IdleSession /\ IdleProcess /\ IdleValid

\* One call of aggregate_market_data, to 3-minute or to 5-minute bars.
AggregateMarketData ==
    /\ pc = "aggregate"
    /\ \E to_timeframe \in {"3m", "5m"} :
          /\ agg_out' = aggregate_market_data(agg_in, to_timeframe)
          /\ pc' = to_timeframe
    /\ UNCHANGED <<agg_in, fetchVars, periodVars, sessionVars, processVars, validVars>>

SpecAgg == InitAgg /\ [][AggregateMarketData]_vars

\* The input rows that fall in the bucket of input row i, in input order.
BucketMates(i, size) ==
    SelectSeq(agg_in, LAMBDA r : BucketOf(r, size) = BucketOf(agg_in[i], size))

\* C9: every bucket of the target granularity that holds an input bar yields
\* exactly one output bar, with the timestamp and open of the bucket's first
\* bar, the maximum high, the minimum low, the close of its last bar and the
\* sum of its volumes; a bucket with no input bar yields none.
C9_OneBarPerBucket ==
    pc \in {"3m", "5m"} =>
        /\ agg_out # None
        /\ \A i \in 1..Len(agg_in) :
              Cardinality({ k \in 1..Len(agg_out[1]) :
                  agg_out[1][k] =
                      AggregateBucket(BucketMates(i, timeframe_mapping(pc)),
                                      BucketOf(agg_in[i], timeframe_mapping(pc)),
                                      timeframe_mapping(pc)) }) = 1
        /\ \A k \in 1..Len(agg_out[1]) :
              \E i \in 1..Len(agg_in) :
                  agg_out[1][k].datetime
                      = BucketOf(agg_in[i], timeframe_mapping(pc)) * timeframe_mapping(pc)

\* C11: the aggregator drops no bar of a series the processor produced: when
\* it writes an output, every input bar falls in the bucket of some output bar
\* and the output's total volume equals the input's total volume (also for a
\* bar stamped exactly at the 16:00:00 close).
C11_NoBarDropped ==
    (pc \in {"3m", "5m"} /\ agg_out # None) =>
        /\ SumVolume(agg_out[1]) = SumVolume(agg_in)
        /\ \A i \in 1..Len(agg_in) :
              \E k \in 1..Len(agg_out[1]) :
                  agg_out[1][k].datetime
                      = BucketOf(agg_in[i], timeframe_mapping(pc)) * timeframe_mapping(pc)

=============================================================================
